---------------------------- MODULE Spec2Model ----------------------------
(***************************************************************************)
(* Model of src-tauri/src/git.rs: the status aggregator (get_status), the  *)
(* sync operations (commit_all, push, fetch, pull, add_remote,             *)
(* push_with_upstream, get_remote_url, git_init) and the two error         *)
(* classifiers (parse_pull_error, parse_push_error).                       *)
(*                                                                         *)
(* Strings are TLA+ strings; substring search, trimming, splitting and     *)
(* integer parsing are computed character by character as the Rust std     *)
(* functions compute them.  The git executable is the environment: every   *)
(* Command::output() call draws its outcome from the set of outcomes the   *)
(* tool can produce, and is recorded in `spawned`.                         *)
(***************************************************************************)
EXTENDS Integers, Sequences, FiniteSets, TLC

VARIABLES
    isRepo,     \* path.join(".git").exists()
    origin,     \* URL git holds for the remote 'origin' (None when there is none)
    pc,         \* position inside get_status ("idle": no call in progress)
    op,         \* the operation called last
    args,       \* its arguments
    status,     \* the GitStatus being built / returned by get_status (default otherwise)
    result,     \* the GitResult returned by the last sync operation
    ret,        \* the Option<String> returned by get_remote_url (as an operation)
    spawned,    \* argument vectors of the subprocesses of the last call, in order
    out,        \* outcome of the subprocess spawned last in that call (None: none yet)
    prevAdd,    \* url of the immediately preceding call if it was a successful add_remote
    diag        \* what git prints on stderr when the remote cannot be used, in this run

vars ==
    <<isRepo, origin, pc, op, args, status, result, ret, spawned, out, prevAdd, diag>>

---------------------------------------------------------------------------
(* Bounds of the model *)

\* number of diagnostic fragments concatenated into one stderr text
MaxFrags == 2
\* largest ahead / behind count git reports
MaxCount == 2
\* largest number of lines of `git status --porcelain`
MaxLines == 2

---------------------------------------------------------------------------
(* Option<T>: None is the empty sequence, Some(x) the one-element sequence *)

None == <<>>
Some(x) == <<x>>
IsSome(o) == o # None
IsNone(o) == o = None

---------------------------------------------------------------------------
(* Rust std string functions *)

\* char::is_whitespace, on the characters that occur
IsWhitespace(c) == c \in {" ", "\n", "\t", "\r"}

RECURSIVE TrimStart(_)
TrimStart(s) ==
    IF Len(s) > 0 /\ IsWhitespace(SubSeq(s, 1, 1))
    THEN TrimStart(SubSeq(s, 2, Len(s)))
    ELSE s

RECURSIVE TrimEnd(_)
TrimEnd(s) ==
    IF Len(s) > 0 /\ IsWhitespace(SubSeq(s, Len(s), Len(s)))
    THEN TrimEnd(SubSeq(s, 1, Len(s) - 1))
    ELSE s

\* str::trim
Trim(s) == TrimEnd(TrimStart(s))

\* str::contains
Contains(s, m) ==
    \E i \in 1..(Len(s) - Len(m) + 1) : SubSeq(s, i, i + Len(m) - 1) = m

\* str::starts_with
StartsWith(s, p) == Len(s) >= Len(p) /\ SubSeq(s, 1, Len(p)) = p

\* index of the first occurrence of the one-character string c in s, 0 if none
RECURSIVE FindChar(_, _, _)
FindChar(s, c, i) ==
    IF i > Len(s) THEN 0
    ELSE IF SubSeq(s, i, i) = c THEN i
    ELSE FindChar(s, c, i + 1)

\* str::split(c).collect(): always at least one part
RECURSIVE Split(_, _)
Split(s, c) ==
    LET i == FindChar(s, c, 1) IN
    IF i = 0 THEN <<s>>
    ELSE <<SubSeq(s, 1, i - 1)>> \o Split(SubSeq(s, i + 1, Len(s)), c)

\* "\n" -> no carriage return before it; a trailing "\r" of a line is dropped
StripCr(l) ==
    IF Len(l) > 0 /\ SubSeq(l, Len(l), Len(l)) = "\r"
    THEN SubSeq(l, 1, Len(l) - 1)
    ELSE l

\* str::lines(): split on "\n", the final empty piece is no line
Lines(s) ==
    LET parts == Split(s, "\n")
        kept  == IF parts[Len(parts)] = "" THEN SubSeq(parts, 1, Len(parts) - 1)
                 ELSE parts
    IN [i \in 1..Len(kept) |-> StripCr(kept[i])]

Digits == {"0", "1", "2", "3", "4", "5", "6", "7", "8", "9"}

DigitVal(c) == CHOOSE n \in 0..9 : ToString(n) = c

RECURSIVE ParseDigits(_, _)
ParseDigits(s, acc) ==
    IF Len(s) = 0 THEN acc
    ELSE ParseDigits(SubSeq(s, 2, Len(s)), 10 * acc + DigitVal(SubSeq(s, 1, 1)))

AllDigits(s) == Len(s) > 0 /\ \A i \in 1..Len(s) : SubSeq(s, i, i) \in Digits

\* str::parse::<i32>(): Some(n), or None when s is no decimal integer (the
\* counts of the model stay far below i32::MAX, where parse would fail)
ParseI32(s) ==
    IF AllDigits(s) THEN Some(ParseDigits(s, 0))
    ELSE IF Len(s) > 1 /\ SubSeq(s, 1, 1) = "+" /\ AllDigits(SubSeq(s, 2, Len(s)))
         THEN Some(ParseDigits(SubSeq(s, 2, Len(s)), 0))
    ELSE IF Len(s) > 1 /\ SubSeq(s, 1, 1) = "-" /\ AllDigits(SubSeq(s, 2, Len(s)))
         THEN Some(0 - ParseDigits(SubSeq(s, 2, Len(s)), 0))
    ELSE None

\* Option::unwrap_or
UnwrapOr(o, d) == IF IsSome(o) THEN o[1] ELSE d

---------------------------------------------------------------------------
(* Records the functions return *)

\* GitStatus::default(): derive(Default) gives false, None and 0
DefaultStatus ==
    [is_repo |-> FALSE, has_remote |-> FALSE, has_upstream |-> FALSE,
     remote_url |-> None, changed_count |-> 0, ahead_count |-> 0,
     behind_count |-> 0, current_branch |-> None, error |-> None]

GitResult(success, message, error) ==
    [success |-> success, message |-> message, error |-> error]

\* value of `result` while no sync operation has returned one
NoResult == [success |-> FALSE, message |-> None, error |-> None]

---------------------------------------------------------------------------
(* Outcome of Command::output(): Err(e), or Ok(output) with the exit       *)
(* status and the captured streams                                         *)

SpawnErr == [ok |-> FALSE, success |-> FALSE, stdout |-> "", stderr |-> ""]
Exit(success, stdout, stderr) ==
    [ok |-> TRUE, success |-> success, stdout |-> stdout, stderr |-> stderr]

\* Display of the std::io::Error of a failed spawn
IoError == "No such file or directory (os error 2)"

---------------------------------------------------------------------------
(* The error classifiers *)

ConflictMsg == "Pull failed due to merge conflicts. Resolve conflicts manually."
AuthMsg == "Authentication failed. Check your SSH keys or credentials."
NetworkMsg == "Could not connect to remote. Check your internet connection."
DivergedMsg ==
    "Pull failed: local and remote have diverged. Try pulling with rebase or merging manually."
NotFoundMsg == "Remote repository not found. Check the URL."

\* a classifier that tests the authentication markers before the conflict markers
parse_pull_error_auth_first(stderr) ==
    IF Contains(stderr, "Permission denied") \/ Contains(stderr, "publickey")
    THEN AuthMsg
    ELSE IF Contains(stderr, "CONFLICT") \/ Contains(stderr, "Merge conflict")
    THEN ConflictMsg
    ELSE IF Contains(stderr, "Could not resolve host")
    THEN NetworkMsg
    ELSE IF Contains(stderr, "not possible to fast-forward")
    THEN DivergedMsg
    ELSE Trim(stderr)

parse_pull_error(stderr) ==
    IF Contains(stderr, "CONFLICT") \/ Contains(stderr, "Merge conflict")
    THEN ConflictMsg
    ELSE IF Contains(stderr, "Permission denied") \/ Contains(stderr, "publickey")
    THEN AuthMsg
    ELSE IF Contains(stderr, "Could not resolve host")
    THEN NetworkMsg
    ELSE IF Contains(stderr, "not possible to fast-forward")
    THEN DivergedMsg
    ELSE Trim(stderr)

\* a classifier that tests the host-resolution marker first
parse_push_error_host_first(stderr) ==
    IF Contains(stderr, "Could not resolve host")
    THEN NetworkMsg
    ELSE IF Contains(stderr, "Permission denied") \/ Contains(stderr, "publickey")
    THEN AuthMsg
    ELSE IF Contains(stderr, "Repository not found") \/ Contains(stderr, "does not exist")
    THEN NotFoundMsg
    ELSE Trim(stderr)

parse_push_error(stderr) ==
    IF Contains(stderr, "Permission denied") \/ Contains(stderr, "publickey")
    THEN AuthMsg
    ELSE IF Contains(stderr, "Repository not found") \/ Contains(stderr, "does not exist")
    THEN NotFoundMsg
    ELSE IF Contains(stderr, "Could not resolve host")
    THEN NetworkMsg
    ELSE Trim(stderr)

---------------------------------------------------------------------------
(* add_remote's validation *)

InvalidUrlMsg ==
    "Invalid remote URL format. URL must start with https://, http://, or git@"

\* a validation that looks for the prefixes anywhere in the url
is_valid_remote_url_anywhere(url) ==
    LET u == Trim(url) IN
    Contains(u, "git@") \/ Contains(u, "https://") \/ Contains(u, "http://")

is_valid_remote_url(url) ==
    LET u == Trim(url) IN
    StartsWith(u, "git@") \/ StartsWith(u, "https://") \/ StartsWith(u, "http://")

---------------------------------------------------------------------------
(* The environment: what the git executable can answer *)

\* pieces of git's diagnostics: the markers the classifiers look for, a
\* prefix, and whitespace
Fragments ==
    {"CONFLICT", "Merge conflict", "Permission denied", "publickey",
     "Could not resolve host", "not possible to fast-forward",
     "Repository not found", "does not exist", "fatal: ", " \n"}

RECURSIVE TextsOf(_)
TextsOf(n) ==
    IF n = 0 THEN {""}
    ELSE LET shorter == TextsOf(n - 1)
         IN shorter \cup {t \o f : t \in shorter, f \in Fragments}

HostDiag == "fatal: Could not resolve host: github.com"

\* stderr of a fetch, pull or push that fails
ErrTexts == TextsOf(MaxFrags) \cup {HostDiag}

\* stderr of a failed `git rev-list @{upstream}...HEAD`
RevListErrs ==
    {"fatal: no upstream configured for branch 'main'\n",
     "fatal: ambiguous argument '@{upstream}...HEAD': unknown revision or path not in the working tree.\n",
     "fatal: no such branch: 'main'\n",
     ""}

\* stdout of a successful `git rev-list --left-right --count`: "behind\tahead\n"
RevListOuts ==
    {ToString(b) \o "\t" \o ToString(a) \o "\n" : b \in 0..MaxCount, a \in 0..MaxCount}
    \cup {""}

RECURSIVE PorcelainOf(_)
PorcelainOf(n) ==
    IF n = 0 THEN {""}
    ELSE LET shorter == PorcelainOf(n - 1)
         IN shorter \cup {t \o l : t \in shorter, l \in {" M a.md\n", "?? b.md\r\n"}}

\* stdout of `git status --porcelain`
PorcelainOuts == PorcelainOf(MaxLines)

\* stdout of `git branch --show-current`: empty on a detached HEAD
BranchOuts == {"main\n", "notes/x\n", "", "\n"}

Branches == {"main", "notes/x"}

Urls ==
    {"https://h/r.git", " https://h/r.git", "https://h/r.git\n", "http://h/r.git",
     "git@h:r.git", "ftp://x", " ftp://x", "xhttps://h/r.git", ""}

CommitMessages == {"Update notes"}

NotARepo == Exit(FALSE, "", "fatal: not a git repository\n")

AnyFailure == {SpawnErr, NotARepo}

\* `git branch --show-current`
BranchRuns == AnyFailure \cup {Exit(TRUE, o, "") : o \in BranchOuts}

\* `git remote`: the names of the remotes, 'origin' among them when it is set
RemoteRuns(org) ==
    AnyFailure \cup
    {Exit(TRUE, (IF IsSome(org) THEN "origin\n" ELSE "") \o other, "") :
        other \in {"", "backup\n"}}

\* `git remote get-url origin`: git prints the URL it holds and a newline
GetUrlRuns(org) ==
    {SpawnErr,
     IF IsSome(org) THEN Exit(TRUE, org[1] \o "\n", "")
     ELSE Exit(FALSE, "", "error: No such remote 'origin'\n")}

\* `git status --porcelain`
PorcelainRuns == AnyFailure \cup {Exit(TRUE, o, "") : o \in PorcelainOuts}

\* `git rev-list --left-right --count @{upstream}...HEAD`
RevListRuns ==
    {SpawnErr} \cup {Exit(FALSE, "", e) : e \in RevListErrs}
    \cup {Exit(TRUE, o, "") : o \in RevListOuts}

\* `git add -A`
StageRuns(repo) ==
    IF ~repo THEN AnyFailure
    ELSE {SpawnErr, Exit(TRUE, "", ""),
          Exit(FALSE, "", "fatal: Unable to create '.git/index.lock': File exists.\n"),
          Exit(FALSE, "hint\n", "error: open(\"a.md\"): Permission denied\n")}

\* `git commit -m <message>` with nothing staged: git exits 1 and prints its
\* note on stdout; NothingOnStderr is the same note on the other stream
NothingOnStdout ==
    Exit(FALSE, "On branch main\nnothing to commit, working tree clean\n", "")
NothingOnStderr ==
    Exit(FALSE, "", "On branch main\nnothing to commit, working tree clean\n")
NothingToCommitRuns == {NothingOnStdout, NothingOnStderr}

\* `git commit -m <message>`
CommitRuns(repo) ==
    IF ~repo THEN AnyFailure
    ELSE {SpawnErr, Exit(TRUE, "[main 1a2b3c4] Update notes\n", ""),
          Exit(FALSE, "", "fatal: unable to auto-detect email address\n")}
         \cup NothingToCommitRuns

\* `git push`, `git push -u origin <branch>`, `git fetch --quiet`
NetRuns(d) == {SpawnErr, Exit(TRUE, "", ""), Exit(FALSE, "", d)}

PullConflictOut == "Auto-merging a.md\nCONFLICT (content): Merge conflict in a.md\n"

\* `git pull`
PullRuns(d) ==
    {SpawnErr}
    \cup {Exit(TRUE, o, "") : o \in {"Already up to date.\n", "Fast-forward\n"}}
    \cup {Exit(FALSE, o, d) : o \in {"", PullConflictOut}}

\* `git remote add origin <url>`: git stores the URL as given, and refuses
\* a second 'origin' or a directory that is no repository
RemoteAddRuns(repo, org) ==
    {SpawnErr,
     IF ~repo THEN NotARepo
     ELSE IF IsSome(org) THEN Exit(FALSE, "", "error: remote origin already exists.\n")
     ELSE Exit(TRUE, "", "")}

\* `git init`
InitRuns ==
    {SpawnErr, Exit(TRUE, "Initialized empty Git repository\n", ""),
     Exit(FALSE, "", "fatal: cannot mkdir .git: Permission denied\n")}

---------------------------------------------------------------------------
(* State after construction: a directory that is no repository yet, and no *)
(* call made.  The diagnostic of an unusable remote is fixed for the run.  *)

NoArgs == [path |-> "notes"]

InitWith(diags) ==
    /\ isRepo = FALSE
    /\ origin = None
    /\ pc = "idle"
    /\ op = "none"
    /\ args = NoArgs
    /\ status = DefaultStatus
    /\ result = NoResult
    /\ ret = None
    /\ spawned = <<>>
    /\ out = None
    /\ prevAdd = None
    /\ diag \in diags

Init == InitWith({HostDiag})

\* entering a call: the caller is synchronous, so no other call is in progress
Call(name, a) ==
    /\ pc = "idle"
    /\ op' = name
    /\ args' = a
    /\ prevAdd' = IF op = "add_remote" /\ result.success THEN Some(args.url) ELSE None
    /\ diag' = diag

---------------------------------------------------------------------------
(* git_init *)

\* Result<(), String>
Ok == <<"Ok">>
Err(e) == <<"Err", e>>

git_init_result(r) ==
    IF ~r.ok THEN Err("Failed to run git init: " \o IoError)
    ELSE IF r.success THEN Ok
    ELSE Err(r.stderr)

git_init ==
    /\ Call("git_init", NoArgs)
    /\ \E r \in InitRuns :
        /\ spawned' = <<(<<"init">>)>>
        /\ out' = Some(r)
        /\ ret' = git_init_result(r)
        /\ isRepo' = (isRepo \/ (r.ok /\ r.success))
    /\ result' = NoResult
    /\ status' = DefaultStatus
    /\ UNCHANGED <<origin, pc>>

---------------------------------------------------------------------------
(* get_remote_url *)

\* a probe that takes every directory for a repository
is_git_repo_always(repo) == TRUE

\* lines 37-39: path.join(".git").exists()
is_git_repo(repo) == repo

GetUrlArgv == <<"remote", "get-url", "origin">>

\* the value get_remote_url returns, u being the outcome of `git remote get-url`
get_remote_url_value(repo, u) ==
    IF ~is_git_repo(repo) THEN None
    ELSE IF u.ok /\ u.success THEN Some(Trim(u.stdout))
    ELSE None

\* the subprocesses get_remote_url spawns
get_remote_url_runs(repo) == IF ~is_git_repo(repo) THEN <<>> ELSE <<GetUrlArgv>>

get_remote_url ==
    /\ Call("get_remote_url", NoArgs)
    /\ \E u \in GetUrlRuns(origin) :
        /\ ret' = get_remote_url_value(isRepo, u)
        /\ spawned' = get_remote_url_runs(isRepo)
        /\ out' = IF is_git_repo(isRepo) THEN Some(u) ELSE None
    /\ result' = NoResult
    /\ status' = DefaultStatus
    /\ UNCHANGED <<isRepo, origin, pc>>

---------------------------------------------------------------------------
(* get_status, one step per query *)

\* lines 57-65: the probe, and the snapshot the queries fill
get_status_begin ==
    /\ Call("get_status", NoArgs)
    /\ spawned' = <<>>
    /\ out' = None
    /\ result' = NoResult
    /\ ret' = None
    /\ IF ~is_git_repo(isRepo)
       THEN status' = DefaultStatus /\ pc' = "idle"
       ELSE status' = [DefaultStatus EXCEPT !.is_repo = TRUE] /\ pc' = "branch"
    /\ UNCHANGED <<isRepo, origin>>

\* lines 67-79
BranchStep(st, r) ==
    IF r.ok /\ r.success /\ Trim(r.stdout) # ""
    THEN [st EXCEPT !.current_branch = Some(Trim(r.stdout))]
    ELSE st

get_status_branch ==
    /\ pc = "branch"
    /\ \E r \in BranchRuns :
        /\ status' = BranchStep(status, r)
        /\ spawned' = Append(spawned, <<"branch", "--show-current">>)
        /\ out' = Some(r)
    /\ pc' = "remote"
    /\ UNCHANGED <<isRepo, origin, op, args, result, ret, prevAdd, diag>>

\* lines 87-88
HasRemote(r) == r.success /\ Trim(r.stdout) # ""

\* lines 81-94
RemoteStep(st, repo, r, u) ==
    IF ~r.ok THEN st
    ELSE IF HasRemote(r)
         THEN [st EXCEPT !.has_remote = TRUE,
                         !.remote_url = get_remote_url_value(repo, u)]
         ELSE [st EXCEPT !.has_remote = FALSE]

\* whether the remote step goes on to call get_remote_url
AsksUrl(r) == r.ok /\ HasRemote(r)

get_status_remote ==
    /\ pc = "remote"
    /\ \E r \in RemoteRuns(origin), u \in GetUrlRuns(origin) :
        /\ status' = RemoteStep(status, isRepo, r, u)
        /\ spawned' = Append(spawned, <<"remote">>)
                      \o (IF AsksUrl(r) THEN get_remote_url_runs(isRepo) ELSE <<>>)
        /\ out' = IF AsksUrl(r) /\ is_git_repo(isRepo) THEN Some(u) ELSE Some(r)
    /\ pc' = "changes"
    /\ UNCHANGED <<isRepo, origin, op, args, result, ret, prevAdd, diag>>

\* line 104
CountNonEmptyLines(stdout) == Len(SelectSeq(Lines(stdout), LAMBDA l : l # ""))

\* lines 96-106
ChangesStep(st, r) ==
    IF r.ok /\ r.success
    THEN [st EXCEPT !.changed_count = CountNonEmptyLines(r.stdout)]
    ELSE st

get_status_changes ==
    /\ pc = "changes"
    /\ \E r \in PorcelainRuns :
        /\ status' = ChangesStep(status, r)
        /\ spawned' = Append(spawned, <<"status", "--porcelain">>)
        /\ out' = Some(r)
    /\ pc' = "revlist"
    /\ UNCHANGED <<isRepo, origin, op, args, result, ret, prevAdd, diag>>

RevListArgv == <<"rev-list", "--left-right", "--count", "@{upstream}...HEAD">>

\* a guard that forgets the remote
WantsAheadBehind_ignores_remote(st) == IsSome(st.current_branch)

\* line 109
WantsAheadBehind(st) == st.has_remote /\ IsSome(st.current_branch)

\* lines 110-140
AheadBehindStep(st, r) ==
    IF r.ok
    THEN IF r.success
         THEN LET parts == Split(Trim(r.stdout), "\t") IN
              IF Len(parts) = 2
              THEN [st EXCEPT !.has_upstream = TRUE,
                              !.behind_count = UnwrapOr(ParseI32(parts[1]), 0),
                              !.ahead_count = UnwrapOr(ParseI32(parts[2]), 0)]
              ELSE [st EXCEPT !.has_upstream = TRUE]
         ELSE IF Contains(r.stderr, "no upstream") \/ Contains(r.stderr, "unknown revision")
              THEN [st EXCEPT !.has_upstream = FALSE,
                              !.ahead_count = -1,
                              !.behind_count = -1]
              ELSE st
    ELSE [st EXCEPT !.has_upstream = FALSE, !.ahead_count = -1, !.behind_count = -1]

\* lines 108-143: the last query, made only with a remote and a branch, and
\* the return
get_status_ahead_behind ==
    /\ pc = "revlist"
    /\ \E r \in RevListRuns :
        IF WantsAheadBehind(status)
        THEN /\ status' = AheadBehindStep(status, r)
             /\ spawned' = Append(spawned, RevListArgv)
             /\ out' = Some(r)
        ELSE UNCHANGED <<status, spawned, out>>
    /\ pc' = "idle"
    /\ UNCHANGED <<isRepo, origin, op, args, result, ret, prevAdd, diag>>

---------------------------------------------------------------------------
(* The sync operations *)

Success(message) == GitResult(TRUE, Some(message), None)
Failure(error) == GitResult(FALSE, None, Some(error))

\* lines 149-177: Some(result) when commit_all returns after staging
StageFailure(stage) ==
    IF ~stage.ok THEN Some(Failure("Failed to run git add: " \o IoError))
    ELSE IF ~stage.success
    THEN Some(Failure("Failed to stage changes: " \o stage.stderr
                      \o (IF stage.stdout = "" THEN "" ELSE "\n" \o stage.stdout)))
    ELSE None

\* a commit step that keeps the tool's stderr in `error` when it reports success
CommitResult_keeps_error(commit) ==
    IF commit.ok
    THEN IF commit.success THEN Success("Changes committed")
         ELSE IF Contains(commit.stderr, "nothing to commit")
              THEN GitResult(TRUE, Some("Nothing to commit"), Some(commit.stderr))
              ELSE Failure(commit.stderr)
    ELSE Failure("Failed to commit: " \o IoError)

\* lines 185-216
CommitResult(commit) ==
    IF commit.ok
    THEN IF commit.success THEN Success("Changes committed")
         ELSE IF Contains(commit.stderr, "nothing to commit")
              THEN Success("Nothing to commit")
              ELSE Failure(commit.stderr)
    ELSE Failure("Failed to commit: " \o IoError)

StageArgv == <<"add", "-A">>
CommitArgv(message) == <<"commit", "-m", message>>

commit_all ==
    /\ \E message \in CommitMessages, stage \in StageRuns(isRepo),
          commit \in CommitRuns(isRepo) :
        /\ Call("commit_all", [path |-> "notes", message |-> message])
        /\ IF IsSome(StageFailure(stage))
           THEN /\ result' = StageFailure(stage)[1]
                /\ spawned' = <<StageArgv>>
                /\ out' = Some(stage)
           ELSE /\ result' = CommitResult(commit)
                /\ spawned' = <<StageArgv, CommitArgv(message)>>
                /\ out' = Some(commit)
    /\ ret' = None
    /\ status' = DefaultStatus
    /\ UNCHANGED <<isRepo, origin, pc>>

\* lines 226-247
PushResult(r) ==
    IF r.ok
    THEN IF r.success THEN Success("Pushed successfully")
         ELSE Failure(parse_push_error(r.stderr))
    ELSE Failure("Failed to push: " \o IoError)

push ==
    /\ Call("push", NoArgs)
    /\ \E r \in NetRuns(diag) :
        /\ result' = PushResult(r)
        /\ spawned' = <<(<<"push">>)>>
        /\ out' = Some(r)
    /\ ret' = None
    /\ status' = DefaultStatus
    /\ UNCHANGED <<isRepo, origin, pc>>

\* lines 257-278
FetchResult(r) ==
    IF r.ok
    THEN IF r.success THEN Success("Fetched successfully")
         ELSE Failure(parse_pull_error(r.stderr))
    ELSE Failure("Failed to fetch: " \o IoError)

fetch ==
    /\ Call("fetch", NoArgs)
    /\ \E r \in NetRuns(diag) :
        /\ result' = FetchResult(r)
        /\ spawned' = <<(<<"fetch", "--quiet">>)>>
        /\ out' = Some(r)
    /\ ret' = None
    /\ status' = DefaultStatus
    /\ UNCHANGED <<isRepo, origin, pc>>

\* lines 288-317
PullResult(r) ==
    IF r.ok
    THEN IF r.success
         THEN Success(IF Contains(r.stdout, "Already up to date")
                      THEN "Already up to date"
                      ELSE "Pulled latest changes")
         ELSE Failure(parse_pull_error(r.stdout \o r.stderr))
    ELSE Failure("Failed to pull: " \o IoError)

pull ==
    /\ Call("pull", NoArgs)
    /\ \E r \in PullRuns(diag) :
        /\ result' = PullResult(r)
        /\ spawned' = <<(<<"pull">>)>>
        /\ out' = Some(r)
    /\ ret' = None
    /\ status' = DefaultStatus
    /\ UNCHANGED <<isRepo, origin, pc>>

\* lines 351-382
AddRemoteResult(r) ==
    IF r.ok
    THEN IF r.success THEN Success("Remote added successfully")
         ELSE IF Contains(r.stderr, "already exists")
              THEN Failure("Remote 'origin' already exists")
              ELSE Failure(r.stderr)
    ELSE Failure("Failed to add remote: " \o IoError)

\* line 347
RemoteAddArgv(url) == <<"remote", "add", "origin", url>>

add_remote ==
    /\ \E url \in Urls :
        /\ Call("add_remote", [path |-> "notes", url |-> url])
        /\ IF ~is_valid_remote_url(url)
           THEN /\ result' = Failure(InvalidUrlMsg)
                /\ spawned' = <<>>
                /\ out' = None
                /\ origin' = origin
           ELSE \E r \in RemoteAddRuns(isRepo, origin) :
                /\ result' = AddRemoteResult(r)
                /\ spawned' = <<RemoteAddArgv(url)>>
                /\ out' = Some(r)
                /\ origin' = IF r.ok /\ r.success THEN Some(RemoteAddArgv(url)[4])
                             ELSE origin
    /\ ret' = None
    /\ status' = DefaultStatus
    /\ UNCHANGED <<isRepo, pc>>

\* lines 392-414
PushWithUpstreamResult(branch, r) ==
    IF r.ok
    THEN IF r.success THEN Success("Pushed and tracking origin/" \o branch)
         ELSE Failure(parse_push_error(r.stderr))
    ELSE Failure("Failed to push: " \o IoError)

push_with_upstream ==
    /\ \E branch \in Branches :
        /\ Call("push_with_upstream", [path |-> "notes", branch |-> branch])
        /\ \E r \in NetRuns(diag) :
            /\ result' = PushWithUpstreamResult(branch, r)
            /\ spawned' = <<(<<"push", "-u", "origin", branch>>)>>
            /\ out' = Some(r)
    /\ ret' = None
    /\ status' = DefaultStatus
    /\ UNCHANGED <<isRepo, origin, pc>>

---------------------------------------------------------------------------
(* The program: any sequence of calls by one synchronous caller *)

Next ==
    \/ git_init
    \/ get_remote_url
    \/ get_status_begin
    \/ get_status_branch
    \/ get_status_remote
    \/ get_status_changes
    \/ get_status_ahead_behind
    \/ commit_all
    \/ push
    \/ fetch
    \/ pull
    \/ add_remote
    \/ push_with_upstream

Spec == Init /\ [][Next]_vars

(* The operations that classify a diagnostic, over every diagnostic text *)

InitErrors == InitWith(ErrTexts)

NextErrors ==
    \/ push
    \/ fetch
    \/ pull
    \/ push_with_upstream

SpecErrors == InitErrors /\ [][NextErrors]_vars

---------------------------------------------------------------------------
(* Properties *)

\* the call `name` has returned
Returned(name) == op = name /\ pc = "idle"

\* the subprocess spawned last in the call started and exited non-zero
LastRunExitedNonZero == IsSome(out) /\ out[1].ok /\ ~out[1].success

\* the call spawned `argv` last
SpawnedLast(argv) == spawned # <<>> /\ spawned[Len(spawned)] = argv

\* the call spawned `argv` at some point
SpawnedEver(argv) == \E i \in 1..Len(spawned) : spawned[i] = argv

\* C1: every snapshot get_status returns has ahead_count = behind_count = -1
\* when has_upstream is false, and ahead_count >= 0 exactly when has_upstream
\* is true.
C1_UpstreamSentinel ==
    Returned("get_status") =>
        /\ ~status.has_upstream =>
               status.ahead_count = -1 /\ status.behind_count = -1
        /\ status.ahead_count >= 0 <=> status.has_upstream

\* C2: for a path that is no repository, get_status returns the snapshot
\* with is_repo = false and every other field at its zero / absent default,
\* and has spawned no subprocess.
C2_NonRepoDefaultNoSpawn ==
    (Returned("get_status") /\ ~isRepo) =>
        /\ status = [is_repo |-> FALSE, has_remote |-> FALSE, has_upstream |-> FALSE,
                     remote_url |-> <<>>, changed_count |-> 0, ahead_count |-> 0,
                     behind_count |-> 0, current_branch |-> <<>>, error |-> <<>>]
        /\ spawned = <<>>

C2_Witness ==
    /\ Returned("get_status")
    /\ ~isRepo
    /\ ~status.is_repo
    /\ spawned = <<>>

\* C3: in get_status, has_remote = false implies that remote_url is absent
\* and that the ahead/behind query (git rev-list against @{upstream}) has
\* not been issued, whatever the branch and change-summary queries answered.
C3_NoRemoteNoUrlNoRevList ==
    (op = "get_status" /\ ~status.has_remote) =>
        /\ status.remote_url = <<>>
        /\ ~SpawnedEver(RevListArgv)

C3_Witness ==
    /\ Returned("get_status")
    /\ status.is_repo
    /\ ~status.has_remote
    /\ IsSome(status.current_branch)
    /\ status.changed_count > 0
    /\ SpawnedLast(<<"status", "--porcelain">>)

\* C4: commit_all with nothing to commit (staging succeeded, then the commit
\* subprocess exited non-zero with the nothing-to-commit note, on stdout or
\* on stderr) returns success = true, message "Nothing to commit", no error.
C4_NothingToCommitIsSuccess ==
    (/\ Returned("commit_all")
     /\ Len(spawned) = 2
     /\ SpawnedLast(CommitArgv(args.message))
     /\ out[1] \in NothingToCommitRuns) =>
        result = [success |-> TRUE, message |-> <<"Nothing to commit">>, error |-> <<>>]

\* the url starts with one of the three accepted prefixes
HasAcceptedPrefix(url) ==
    \E p \in {"https://", "http://", "git@"} : StartsWith(url, p)

RejectedUnspawned ==
    /\ result = [success |-> FALSE, message |-> <<>>,
                 error |-> <<"Invalid remote URL format. URL must start with https://, http://, or git@">>]
    /\ spawned = <<>>

\* C5 as stated: for every url that does not start with "https://",
\* "http://" or "git@" (leading whitespace included), add_remote returns
\* the validation failure and spawns nothing; a subprocess is spawned only
\* for a url that starts with one of the prefixes.
C5_PrefixOfRawUrl ==
    Returned("add_remote") =>
        /\ ~HasAcceptedPrefix(args.url) => RejectedUnspawned
        /\ spawned # <<>> => HasAcceptedPrefix(args.url)

\* C5, amended: for every url that, with surrounding whitespace removed,
\* does not start with "https://", "http://" or "git@", add_remote returns
\* the validation failure and spawns nothing; a subprocess is spawned only
\* for a url whose whitespace-trimmed form starts with one of the prefixes.
C5_PrefixOfTrimmedUrl ==
    Returned("add_remote") =>
        /\ ~HasAcceptedPrefix(Trim(args.url)) => RejectedUnspawned
        /\ spawned # <<>> => HasAcceptedPrefix(Trim(args.url))

C5_Witness ==
    /\ Returned("add_remote")
    /\ args.url = "ftp://x"
    /\ RejectedUnspawned

ResultOps == {"commit_all", "push", "fetch", "pull", "add_remote", "push_with_upstream"}

\* C6: every GitResult returned by commit_all, push, fetch, pull, add_remote
\* and push_with_upstream has message present iff success = true and error
\* present iff success = false.
C6_ExactlyOneOfMessageError ==
    (pc = "idle" /\ op \in ResultOps) =>
        /\ IsSome(result.message) <=> result.success
        /\ IsSome(result.error) <=> ~result.success

C6_Witness ==
    /\ Returned("commit_all")
    /\ Len(spawned) = 2
    /\ out[1] = NothingOnStderr
    /\ result.success
    /\ result.message = <<"Nothing to commit">>
    /\ result.error = <<>>

\* the message of the first category of `order` one of whose markers occurs
\* in `text`, and the trimmed text when there is none
RECURSIVE FirstCategory(_, _, _)
FirstCategory(order, text, i) ==
    IF i > Len(order) THEN Trim(text)
    ELSE IF \E m \in order[i].markers : Contains(text, m) THEN order[i].message
    ELSE FirstCategory(order, text, i + 1)

PullOrder ==
    <<[markers |-> {"CONFLICT", "Merge conflict"}, message |-> ConflictMsg],
      [markers |-> {"Permission denied", "publickey"}, message |-> AuthMsg],
      [markers |-> {"Could not resolve host"}, message |-> NetworkMsg],
      [markers |-> {"not possible to fast-forward"}, message |-> DivergedMsg]>>

PushOrder ==
    <<[markers |-> {"Permission denied", "publickey"}, message |-> AuthMsg],
      [markers |-> {"Repository not found", "does not exist"}, message |-> NotFoundMsg],
      [markers |-> {"Could not resolve host"}, message |-> NetworkMsg]>>

\* the text a failed fetch or pull hands to parse_pull_error
PullText == IF op = "pull" THEN out[1].stdout \o out[1].stderr ELSE out[1].stderr

HasConflictMarker(t) == Contains(t, "CONFLICT") \/ Contains(t, "Merge conflict")
HasAuthMarker(t) == Contains(t, "Permission denied") \/ Contains(t, "publickey")
HasHostMarker(t) == Contains(t, "Could not resolve host")

\* C7: the error of a fetch or pull whose subprocess exits non-zero is the
\* message of the first matching category in the order conflict,
\* authentication, host resolution, diverged, and otherwise the trimmed
\* text; a text with both a conflict and an authentication marker yields
\* the merge-conflict message.
C7_PullFirstMatch ==
    (pc = "idle" /\ op \in {"fetch", "pull"} /\ LastRunExitedNonZero) =>
        /\ result.error = <<FirstCategory(PullOrder, PullText, 1)>>
        /\ (HasConflictMarker(PullText) /\ HasAuthMarker(PullText)) =>
               result.error = <<ConflictMsg>>

C7_Witness ==
    /\ Returned("fetch")
    /\ LastRunExitedNonZero
    /\ HasConflictMarker(out[1].stderr)
    /\ HasAuthMarker(out[1].stderr)
    /\ result.error = <<ConflictMsg>>

\* C8: the error of a push or push_with_upstream whose subprocess exits
\* non-zero is the message of the first matching category in the order
\* authentication, repository not found, host resolution, and otherwise the
\* trimmed stderr; "fatal: Could not resolve host: github.com" yields the
\* network message, and a text with both an authentication and a
\* host-resolution marker yields the authentication message.
C8_PushFirstMatch ==
    (pc = "idle" /\ op \in {"push", "push_with_upstream"} /\ LastRunExitedNonZero) =>
        /\ result.error = <<FirstCategory(PushOrder, out[1].stderr, 1)>>
        /\ out[1].stderr = "fatal: Could not resolve host: github.com" =>
               result.error = <<NetworkMsg>>
        /\ (HasAuthMarker(out[1].stderr) /\ HasHostMarker(out[1].stderr)) =>
               result.error = <<AuthMsg>>

C8_Witness ==
    /\ Returned("push")
    /\ LastRunExitedNonZero
    /\ HasAuthMarker(out[1].stderr)
    /\ HasHostMarker(out[1].stderr)
    /\ result.error = <<AuthMsg>>

\* C9: in a repository, get_remote_url called right after a successful
\* add_remote(path, url) of a url accepted as an HTTPS URL returns Some(url),
\* the string that was passed in.
C9_RoundTrip ==
    (/\ Returned("get_remote_url")
     /\ isRepo
     /\ IsSome(prevAdd)
     /\ StartsWith(Trim(prevAdd[1]), "https://")
     /\ IsSome(out) /\ out[1].ok /\ out[1].success) =>
        ret = <<prevAdd[1]>>

\* C10: when get_status issues the ahead/behind query and the query fails
\* (spawn failure, or non-zero exit with any stderr), the snapshot has
\* has_upstream = false and ahead_count = behind_count = -1, and the fields
\* collected by the earlier steps are unchanged.
C10_AnyFailureIsSentinel ==
    [][(/\ pc = "revlist"
        /\ WantsAheadBehind(status)
        /\ (~out'[1].ok \/ ~out'[1].success)) =>
           /\ ~status'.has_upstream
           /\ status'.ahead_count = -1
           /\ status'.behind_count = -1
           /\ status'.is_repo = status.is_repo
           /\ status'.current_branch = status.current_branch
           /\ status'.has_remote = status.has_remote
           /\ status'.remote_url = status.remote_url
           /\ status'.changed_count = status.changed_count
           /\ status'.error = status.error]_vars

=============================================================================
